---- MODULE Spec2Model ----
(***************************************************************************)
(* The ignore-pattern engine of scaffold-kit:                              *)
(*   scaffold_kit/utils/pattern_processor.py  glob pattern -> regex text   *)
(*   scaffold_kit/utils/ignore_parser.py      IgnoreRule, IgnoreParser     *)
(*                                                                         *)
(* A string is a sequence of one-character strings, indexed from 1; the    *)
(* source's 0-based position i is kept as is and read as text[i + 1].      *)
(* pattern_to_regex builds the regex TEXT character by character, as the   *)
(* code does; re_compile parses that text and re_match runs it with the    *)
(* semantics of Python's re module, so that what a pattern accepts is      *)
(* decided by the text the code emitted and not by the glob it came from.  *)
(***************************************************************************)
EXTENDS Integers, Sequences, FiniteSets, TLC

(***************************************************************************)
(* Characters.  Ord gives the code point, which decides a range a-c of a   *)
(* regex character class.                                                  *)
(***************************************************************************)
NL == "\n"
BSL == "\\"

Ord ==
    (NL :> 10) @@ ("!" :> 33) @@ ("(" :> 40) @@ (")" :> 41) @@ ("*" :> 42) @@
    ("-" :> 45) @@ ("." :> 46) @@ ("/" :> 47) @@ ("0" :> 48) @@ ("5" :> 53) @@
    ("9" :> 57) @@ (":" :> 58) @@ ("?" :> 63) @@ ("A" :> 65) @@ ("[" :> 91) @@
    (BSL :> 92) @@ ("]" :> 93) @@ ("^" :> 94) @@ ("$" :> 36) @@ ("#" :> 35) @@
    ("a" :> 97) @@ ("b" :> 98) @@ ("c" :> 99) @@ ("d" :> 100) @@ ("e" :> 101) @@
    ("f" :> 102) @@ ("g" :> 103) @@ ("i" :> 105) @@ ("k" :> 107) @@
    ("l" :> 108) @@ ("m" :> 109) @@ ("n" :> 110) @@ ("o" :> 111) @@
    ("p" :> 112) @@ ("r" :> 114) @@ ("s" :> 115) @@ ("t" :> 116) @@
    ("u" :> 117) @@ ("v" :> 118) @@ ("x" :> 120) @@ ("y" :> 121) @@
    (" " :> 32)

Chars == DOMAIN Ord

\* F(x), with x evaluated once, before F is applied: the loops below pass
\* their running values through it.
Bind(x, F(_)) == CHOOSE r \in {F(v) : v \in {x}} : TRUE

\* str.startswith / str.endswith with a one-character argument
StartsWith(s, c) == Len(s) >= 1 /\ s[1] = c
EndsWith(s, c) == Len(s) >= 1 /\ s[Len(s)] = c

\* c in s, for a one-character c
Contains(s, c) == \E i \in 1..Len(s) : s[i] = c

\* s[a:b] of Python, 0-based, b exclusive
Slice(s, a, b) == SubSeq(s, a + 1, b)

\* The concatenation of a sequence of strings
RECURSIVE Concat(_)
Concat(ss) == IF ss = <<>> THEN <<>> ELSE Head(ss) \o Concat(Tail(ss))

\* str.split(c): the pieces between the occurrences of c, always at least one
RECURSIVE SplitFrom(_, _, _)
SplitFrom(s, c, cur) ==
    IF s = <<>> THEN <<cur>>
    ELSE IF Head(s) = c THEN <<cur>> \o SplitFrom(Tail(s), c, <<>>)
    ELSE SplitFrom(Tail(s), c, Append(cur, Head(s)))

Split(s, c) == SplitFrom(s, c, <<>>)

(***************************************************************************)
(* re.escape (Python >= 3.7): a backslash before each character that can   *)
(* be special in a regular expression.                                     *)
(***************************************************************************)
ReSpecialChars ==
    {"(", ")", "[", "]", "?", "*", "-", "^", "$", BSL, ".", "#", " ", NL}

re_escape(c) == IF c \in ReSpecialChars THEN <<BSL, c>> ELSE <<c>>

(***************************************************************************)
(* The character handlers.  A handler is can_handle(char) and              *)
(* handle(text, position) -> <<replacement, new position>>.                *)
(***************************************************************************)
Wildcard_can_handle(char) == char = "*"
Wildcard_handle(text, position) == << <<"[", "^", "/", "]", "*">>, position + 1 >>

SingleChar_can_handle(char) == char = "?"
SingleChar_handle(text, position) == << <<"[", "^", "/", "]">>, position + 1 >>

CharacterClass_can_handle(char) == char = "["

\* while i < len(text) and text[i] != "]": i += 1
RECURSIVE FindClosingBracket(_, _)
FindClosingBracket(text, i) ==
    IF i < Len(text) /\ text[i + 1] # "]"
    THEN FindClosingBracket(text, i + 1)
    ELSE i

\* A handler that takes every [ as a literal bracket
CharacterClass_literal(text, position) == <<re_escape("["), position + 1>>

\* A handler that emits the [ of an unclosed class as it is
CharacterClass_unescaped(text, position) ==
    LET i0 == position + 1
        i1 == IF i0 < Len(text) /\ text[i0 + 1] \in {"!", "^"} THEN i0 + 1 ELSE i0
        i2 == IF i1 < Len(text) /\ text[i1 + 1] = "]" THEN i1 + 1 ELSE i1
        i == FindClosingBracket(text, i2)
    IN  IF i < Len(text)
        THEN << Slice(text, position, i + 1), i + 1 >>
        ELSE << <<"[">>, position + 1 >>

CharacterClass_handle(text, position) ==
    LET start == position
        i0 == position + 1
        i1 == IF i0 < Len(text) /\ text[i0 + 1] \in {"!", "^"} THEN i0 + 1 ELSE i0
        i2 == IF i1 < Len(text) /\ text[i1 + 1] = "]" THEN i1 + 1 ELSE i1
        i == FindClosingBracket(text, i2)
    IN  IF i < Len(text)
        THEN << Slice(text, start, i + 1), i + 1 >>
        ELSE << re_escape("["), position + 1 >>

LiteralChar_can_handle(char) == TRUE
LiteralChar_handle(text, position) == << re_escape(text[position + 1]), position + 1 >>

\* A handler list with the fallback handler first
HandlerNames_fallback_first == <<"literal", "wildcard", "single", "class">>

\* GlobProcessor.handlers, in the order of the list
HandlerNames == <<"wildcard", "single", "class", "literal">>

can_handle(h, char) ==
    CASE h = "wildcard" -> Wildcard_can_handle(char)
      [] h = "single" -> SingleChar_can_handle(char)
      [] h = "class" -> CharacterClass_can_handle(char)
      [] h = "literal" -> LiteralChar_can_handle(char)

handle(h, text, position) ==
    CASE h = "wildcard" -> Wildcard_handle(text, position)
      [] h = "single" -> SingleChar_handle(text, position)
      [] h = "class" -> CharacterClass_handle(text, position)
      [] h = "literal" -> LiteralChar_handle(text, position)

NoHandler == "RuntimeError"

\* The first handler of the list that can handle char
find_handler(char) ==
    IF \E k \in 1..Len(HandlerNames) : can_handle(HandlerNames[k], char)
    THEN HandlerNames[CHOOSE k \in 1..Len(HandlerNames) :
            /\ can_handle(HandlerNames[k], char)
            /\ \A j \in 1..(k - 1) : ~can_handle(HandlerNames[j], char)]
    ELSE NoHandler

\* The while loop of convert_glob_part
RECURSIVE ConvertLoop(_, _, _)
ConvertLoop(part, position, result) ==
    IF position < Len(part)
    THEN Bind(handle(find_handler(part[position + 1]), part, position),
              LAMBDA r : ConvertLoop(part, r[2], result \o r[1]))
    ELSE result

RecursiveWildcard == <<"*", "*">>
DotStar == <<".", "*">>

convert_glob_part(part) ==
    IF part = RecursiveWildcard THEN DotStar
    ELSE Bind(part, LAMBDA text : ConvertLoop(text, 0, <<>>))

(***************************************************************************)
(* PatternProcessor                                                        *)
(***************************************************************************)
\* A normalisation that removes every leading slash
RECURSIVE normalize_pattern_lstrip(_)
normalize_pattern_lstrip(pattern) ==
    LET p1 == IF ~Contains(pattern, "/") THEN <<"*", "*", "/">> \o pattern ELSE pattern
    IN  IF StartsWith(p1, "/") THEN normalize_pattern_lstrip(Tail(p1)) ELSE p1

normalize_pattern(pattern) ==
    LET p1 == IF ~Contains(pattern, "/") THEN <<"*", "*", "/">> \o pattern ELSE pattern
    IN  IF StartsWith(p1, "/") THEN Tail(p1) ELSE p1

RECURSIVE JoinLoop(_, _, _)
JoinLoop(regex_parts, i, result) ==
    IF i < Len(regex_parts)
    THEN LET prev_part == regex_parts[i]
             curr_part == regex_parts[i + 1]
             sep == IF prev_part # DotStar /\ curr_part # DotStar THEN <<"/">> ELSE <<>>
         IN  JoinLoop(regex_parts, i + 1, result \o sep \o curr_part)
    ELSE result

join_regex_parts(regex_parts) ==
    IF regex_parts = <<>> THEN <<>> ELSE JoinLoop(regex_parts, 1, regex_parts[1])

Anchored(joined_regex) == <<"^">> \o joined_regex \o <<"$">>

\* regex_parts = [convert_glob_part(part) for part in parts]
ConvertParts(parts) == [k \in 1..Len(parts) |-> convert_glob_part(parts[k])]

pattern_to_regex(pattern) ==
    LET normalized_pattern == normalize_pattern(pattern)
        parts == Split(normalized_pattern, "/")
    IN  Bind(ConvertParts(parts),
             LAMBDA regex_parts : Anchored(join_regex_parts(regex_parts)))

(***************************************************************************)
(* Python's re, for the syntax the code can emit: literals, \c escapes,    *)
(* ., character classes [...] with ^ negation, ranges and escapes, the     *)
(* quantifiers * and ?, groups (?:...), and the anchors ^ and $.           *)
(* re_compile parses the regex text into a sequence of nodes               *)
(*   [k |-> "set", neg, chars, q]    one character in (not in) chars       *)
(*   [k |-> "bol", q] [k |-> "eol", q]    the anchors ^ and $              *)
(*   [k |-> "group", body, q]        a group                               *)
(* with q the quantifier "one", "star" or "opt", as [ok |-> TRUE, nodes];  *)
(* it is ReError for a text that re.compile rejects.                       *)
(***************************************************************************)
ReError == [ok |-> FALSE]

AlNum == {c \in Chars : \/ Ord[c] \in 48..57
                        \/ Ord[c] \in 65..90
                        \/ Ord[c] \in 97..122}
Digits == {c \in Chars : Ord[c] \in 48..57}
Whitespace == {c \in Chars : Ord[c] \in {9, 10, 11, 12, 13, 32}}

\* A backslash escape inside a class: a literal character ("lit", with its
\* code point), a category ("cat") or an error.
ClassEscape(c) ==
    CASE c \notin AlNum -> [t |-> "lit", code |-> Ord[c]]
      [] c = "d" -> [t |-> "cat", chars |-> Digits]
      [] c = "s" -> [t |-> "cat", chars |-> Whitespace]
      [] c = "n" -> [t |-> "lit", code |-> 10]
      [] c = "a" -> [t |-> "lit", code |-> 7]
      [] c = "b" -> [t |-> "lit", code |-> 8]
      [] c = "t" -> [t |-> "lit", code |-> 9]
      [] c = "v" -> [t |-> "lit", code |-> 11]
      [] c = "f" -> [t |-> "lit", code |-> 12]
      [] c = "r" -> [t |-> "lit", code |-> 13]
      [] c \in Digits -> [t |-> "lit", code |-> Ord[c] - 48]
      [] OTHER -> [t |-> "err"]

ItemChars(item) ==
    IF item.t = "cat" THEN item.chars ELSE {c \in Chars : Ord[c] = item.code}

\* One member of a class at 1-based index j: <<item, index after it>>
ClassItem(rx, j) ==
    IF rx[j] = BSL
    THEN IF j + 1 > Len(rx) THEN << [t |-> "err"], j + 1 >>
         ELSE << ClassEscape(rx[j + 1]), j + 2 >>
    ELSE << [t |-> "lit", code |-> Ord[rx[j]]], j + 1 >>

\* The members of a class from index j on, up to its closing bracket:
\* [ok, chars, next], next the index after the bracket.
RECURSIVE ClassLoop(_, _, _, _)
RECURSIVE ClassRest(_, _, _, _)
ClassLoop(rx, j, first, acc) ==
    IF j > Len(rx) THEN [ok |-> FALSE]
    ELSE IF rx[j] = "]" /\ ~first THEN [ok |-> TRUE, chars |-> acc, next |-> j + 1]
    ELSE Bind(ClassItem(rx, j), LAMBDA it1 : ClassRest(rx, it1[1], it1[2], acc))

\* The rest of the loop body, after the member code1 that ended before index
\* j1: a range code1-code2 when a "-" follows, the member alone otherwise.
ClassRest(rx, code1, j1, acc) ==
    IF code1.t = "err" THEN [ok |-> FALSE]
    ELSE IF j1 <= Len(rx) /\ rx[j1] = "-"
    THEN IF j1 + 1 > Len(rx) THEN [ok |-> FALSE]
         ELSE IF rx[j1 + 1] = "]"
         THEN [ok |-> TRUE,
               chars |-> acc \cup ItemChars(code1) \cup {"-"},
               next |-> j1 + 2]
         ELSE Bind(ClassItem(rx, j1 + 1), LAMBDA it2 :
                IF it2[1].t = "err" THEN [ok |-> FALSE]
                ELSE IF code1.t # "lit" \/ it2[1].t # "lit" THEN [ok |-> FALSE]
                ELSE IF it2[1].code < code1.code THEN [ok |-> FALSE]
                ELSE ClassLoop(rx, it2[2], FALSE,
                        acc \cup {c \in Chars : Ord[c] \in code1.code..it2[1].code}))
    ELSE ClassLoop(rx, j1, FALSE, acc \cup ItemChars(code1))

\* The class whose opening bracket is at index i: [ok, node, next]
ParseClass(rx, i) ==
    LET negate == i + 1 <= Len(rx) /\ rx[i + 1] = "^"
    IN  Bind(ClassLoop(rx, IF negate THEN i + 2 ELSE i + 1, TRUE, {}), LAMBDA r :
            IF r.ok
            THEN [ok |-> TRUE,
                  node |-> [k |-> "set", neg |-> negate, chars |-> r.chars, q |-> "one"],
                  next |-> r.next]
            ELSE [ok |-> FALSE])

LitNode(c) == [k |-> "set", neg |-> FALSE, chars |-> {c}, q |-> "one"]
\* . matches any character except a newline
DotNode == [k |-> "set", neg |-> TRUE, chars |-> {NL}, q |-> "one"]

\* A backslash escape outside a class: \d, \s, the control characters, the
\* assertions \A and \b; a digit is a reference to a group that does
\* not exist, an unknown letter an error; any other character is itself.
Escape(c) ==
    CASE c \notin AlNum -> LitNode(c)
      [] c = "d" -> [k |-> "set", neg |-> FALSE, chars |-> Digits, q |-> "one"]
      [] c = "s" -> [k |-> "set", neg |-> FALSE, chars |-> Whitespace, q |-> "one"]
      [] c \in {"n", "a", "t", "v", "f", "r"} ->
            [k |-> "set", neg |-> FALSE, chars |-> ItemChars(ClassEscape(c)), q |-> "one"]
      [] c = "A" -> [k |-> "bol", q |-> "one"]
      [] c = "b" -> [k |-> "wordb", q |-> "one"]
      [] c = "0" -> [k |-> "set", neg |-> FALSE, chars |-> {}, q |-> "one"]
      [] OTHER -> [k |-> "err"]

\* The quantifier at index i, if any: <<q, index after it>>
\* (a ? right after a quantifier makes it lazy, which changes which match is
\* found and not whether there is one)
Quantifier(rx, i) ==
    LET lazy(j) == IF j <= Len(rx) /\ rx[j] = "?" THEN j + 1 ELSE j
    IN  IF i <= Len(rx) /\ rx[i] = "*" THEN <<"star", lazy(i + 1)>>
        ELSE IF i <= Len(rx) /\ rx[i] = "?" THEN <<"opt", lazy(i + 1)>>
        ELSE <<"one", i>>

\* The items from index i on, up to the end of the text (depth 0) or the
\* closing parenthesis of the group being read (depth 1): [ok, nodes, next]
RECURSIVE ParseSeq(_, _, _, _)
RECURSIVE ParseAtom(_, _, _)

\* The item that starts at index i, without its quantifier: [ok, node, next]
ParseAtom(rx, i, depth) ==
    LET c == rx[i]
    IN  CASE c = ")" -> [ok |-> FALSE]
          [] c = "^" -> [ok |-> TRUE, node |-> [k |-> "bol", q |-> "one"], next |-> i + 1]
          [] c = "$" -> [ok |-> TRUE, node |-> [k |-> "eol", q |-> "one"], next |-> i + 1]
          [] c = "." -> [ok |-> TRUE, node |-> DotNode, next |-> i + 1]
          [] c = "*" \/ c = "?" -> [ok |-> FALSE]      \* nothing to repeat
          [] c = BSL ->
                IF i + 1 > Len(rx) THEN [ok |-> FALSE]
                ELSE Bind(Escape(rx[i + 1]), LAMBDA e :
                        IF e.k = "err" THEN [ok |-> FALSE]
                        ELSE [ok |-> TRUE, node |-> e, next |-> i + 2])
          [] c = "[" -> ParseClass(rx, i)
          [] c = "(" ->
                IF i + 2 <= Len(rx) /\ rx[i + 1] = "?" /\ rx[i + 2] = ":"
                THEN Bind(ParseSeq(rx, i + 3, depth + 1, <<>>), LAMBDA g :
                        IF g.ok
                        THEN [ok |-> TRUE,
                              node |-> [k |-> "group", body |-> g.nodes, q |-> "one"],
                              next |-> g.next]
                        ELSE [ok |-> FALSE])
                ELSE [ok |-> FALSE]
          [] OTHER -> [ok |-> TRUE, node |-> LitNode(c), next |-> i + 1]

\* The item with its quantifier, appended to nodes: what ParseSeq goes on with
Quantified(rx, atom, qn, depth, nodes) ==
    IF qn[1] # "one" /\ atom.node.k \in {"bol", "eol", "wordb"}
    THEN [ok |-> FALSE]                                 \* nothing to repeat
    ELSE Bind(Append(nodes, [atom.node EXCEPT !.q = qn[1]]),
              LAMBDA ns : ParseSeq(rx, qn[2], depth, ns))

ParseSeq(rx, i, depth, nodes) ==
    IF i > Len(rx)
    THEN IF depth = 0 THEN [ok |-> TRUE, nodes |-> nodes, next |-> i] ELSE [ok |-> FALSE]
    ELSE IF rx[i] = ")" /\ depth > 0 THEN [ok |-> TRUE, nodes |-> nodes, next |-> i + 1]
    ELSE Bind(ParseAtom(rx, i, depth), LAMBDA atom :
            IF ~atom.ok THEN [ok |-> FALSE]
            ELSE Bind(Quantifier(rx, atom.next),
                      LAMBDA qn : Quantified(rx, atom, qn, depth, nodes)))

re_compile(regex_str) ==
    Bind(regex_str, LAMBDA rx :
        Bind(ParseSeq(rx, 1, 0, <<>>), LAMBDA r :
            IF r.ok THEN [ok |-> TRUE, nodes |-> r.nodes] ELSE ReError))

(***************************************************************************)
(* Pattern.match(path): the nodes are run from position 0 over the set of  *)
(* positions each can end at; there is a match when the last node can end  *)
(* somewhere (match() does not ask for the end of the string: only a $     *)
(* does, and $ also holds just before a final newline).                    *)
(***************************************************************************)
RECURSIVE RunSeq(_, _, _)
RECURSIVE StarFrom(_, _, _)

Once(node, P, path) ==
    CASE node.k = "bol" -> {p \in P : p = 0}
      [] node.k = "eol" ->
            {p \in P : \/ p = Len(path)
                       \/ p = Len(path) - 1 /\ path[Len(path)] = NL}
      [] node.k = "set" ->
            {p + 1 : p \in {x \in P : x < Len(path) /\
                                      ((path[x + 1] \in node.chars) # node.neg)}}
      [] node.k = "wordb" ->
            {p \in P : (p > 0 /\ path[p] \in AlNum) # (p < Len(path) /\ path[p + 1] \in AlNum)}
      [] node.k = "group" -> RunSeq(node.body, P, path)

StarFrom(node, P, path) ==
    Bind(P \cup Once(node, P, path),
         LAMBDA N : IF N = P THEN P ELSE StarFrom(node, N, path))

Step(node, P, path) ==
    CASE node.q = "one" -> Once(node, P, path)
      [] node.q = "opt" -> P \cup Once(node, P, path)
      [] node.q = "star" -> StarFrom(node, P, path)

RunSeq(nodes, P, path) ==
    IF nodes = <<>> \/ P = {} THEN P
    ELSE Bind(Step(Head(nodes), P, path), LAMBDA Q : RunSeq(Tail(nodes), Q, path))

re_match(compiled, path) ==
    Bind(compiled.nodes, LAMBDA nodes :
        Bind(path, LAMBDA text : RunSeq(nodes, {0}, text) # {}))

(***************************************************************************)
(* IgnoreRule                                                              *)
(***************************************************************************)
\* str.strip(c) with a one-character argument: every leading and trailing c
RECURSIVE LStrip(_, _)
LStrip(s, cs) == IF s # <<>> /\ Head(s) \in cs THEN LStrip(Tail(s), cs) ELSE s

RECURSIVE RStrip(_, _)
RStrip(s, cs) ==
    IF s # <<>> /\ s[Len(s)] \in cs THEN RStrip(SubSeq(s, 1, Len(s) - 1), cs) ELSE s

Strip(s, cs) == RStrip(LStrip(s, cs), cs)

\* The group that replaces the final $ of a directory-only rule: (?:/.*)?$
DirOnlySuffix == <<"(", "?", ":", "/", ".", "*", ")", "?", "$">>

\* Steps 1 and 2 of from_pattern: the flags and the cleaned pattern
IsNegated(pattern) == StartsWith(pattern, "!")
Unnegated(pattern) == IF IsNegated(pattern) THEN Tail(pattern) ELSE pattern
IsDirOnly(pattern) == EndsWith(Unnegated(pattern), "/")
Cleaned(pattern) ==
    LET p1 == Unnegated(pattern)
    IN  IF EndsWith(p1, "/") THEN SubSeq(p1, 1, Len(p1) - 1) ELSE p1

\* Steps 3 and 4 of from_pattern: the regex text that is compiled
rule_regex_str(pattern) ==
    LET regex_str == pattern_to_regex(Cleaned(pattern))
    IN  IF IsDirOnly(pattern)
        THEN SubSeq(regex_str, 1, Len(regex_str) - 1) \o DirOnlySuffix
        ELSE regex_str

\* from_pattern: the rule, or ReError when re.compile raises
from_pattern(pattern) ==
    LET compiled == re_compile(rule_regex_str(pattern))
    IN  IF compiled.ok
        THEN [ok |-> TRUE,
              pattern |-> pattern,
              regex |-> compiled,
              negated |-> IsNegated(pattern),
              dir_only |-> IsDirOnly(pattern)]
        ELSE ReError

\* The text the path is compared with in IgnoreRule.matches
RuleOwnName(rule) == Strip(rule.pattern, {"/"})

IgnoreRule_matches(rule, path, is_dir) ==
    IF ~re_match(rule.regex, path) THEN FALSE
    ELSE IF rule.dir_only /\ ~is_dir /\ path = RuleOwnName(rule) THEN FALSE
    ELSE TRUE

(***************************************************************************)
(* pathlib, as far as the parser uses it.  A path is its text; Path(text)  *)
(* drops empty and "." components and a trailing slash, keeps a leading    *)
(* slash (two, when there are exactly two) and is "." when nothing is      *)
(* left.                                                                   *)
(***************************************************************************)
RECURSIVE JoinWith(_, _)
JoinWith(parts, sep) ==
    IF parts = <<>> THEN <<>>
    ELSE IF Len(parts) = 1 THEN parts[1]
    ELSE parts[1] \o sep \o JoinWith(Tail(parts), sep)

PathRoot(text) ==
    IF Len(text) >= 2 /\ text[1] = "/" /\ text[2] = "/" /\ ~(Len(text) >= 3 /\ text[3] = "/")
    THEN <<"/", "/">>
    ELSE IF StartsWith(text, "/") THEN <<"/">> ELSE <<>>

PathNames(text) == SelectSeq(Split(text, "/"), LAMBDA n : n # <<>> /\ n # <<".">>)

\* str(Path(text)), also Path(text).as_posix()
PathStr(text) ==
    LET root == PathRoot(text)
        names == PathNames(text)
    IN  IF root = <<>> /\ names = <<>> THEN <<".">> ELSE root \o JoinWith(names, <<"/">>)

is_absolute(text) == PathRoot(text) # <<>>

IsPrefixSeq(a, b) == Len(a) <= Len(b) /\ SubSeq(b, 1, Len(a)) = a

\* p.relative_to(base) succeeds
IsRelativeTo(text, base) ==
    PathRoot(text) = PathRoot(base) /\ IsPrefixSeq(PathNames(base), PathNames(text))

relative_to(text, base) ==
    LET rest == SubSeq(PathNames(text), Len(PathNames(base)) + 1, Len(PathNames(text)))
    IN  IF rest = <<>> THEN <<".">> ELSE JoinWith(rest, <<"/">>)

(***************************************************************************)
(* IgnoreParser: the path of a query and the lines of an ignore file       *)
(***************************************************************************)
NoBase == <<>>

normalize_path(text) == PathStr(text)

rel_to_base(base, path) ==
    IF base # NoBase
    THEN IF is_absolute(path)
         THEN IF IsRelativeTo(path, base)
              THEN relative_to(path, base)
              ELSE PathStr(path)          \* ValueError: str(p.absolute())
         ELSE PathStr(path)
    ELSE PathStr(path)

\* The path itself and what stands before each / of it
DirectoryPrefixes(text) == {text} \cup {SubSeq(text, 1, i - 1) : i \in {j \in 1..Len(text) : text[j] = "/"}}

\* The working directory of the process
cwd == <<"/", "r">>

\* Path(path).is_dir(), asked of the file system: fs is the set of the
\* directories beneath the working directory, each relative to it
fs_is_dir(fs, path) ==
    LET p == IF is_absolute(path) /\ IsRelativeTo(path, cwd)
             THEN relative_to(path, cwd)
             ELSE PathStr(path)
    IN  p = <<".">> \/ p \in fs

\* str.splitlines(): the lines, without a last empty one
splitlines(text) ==
    LET pieces == Split(text, NL)
    IN  IF pieces[Len(pieces)] = <<>> THEN SubSeq(pieces, 1, Len(pieces) - 1) ELSE pieces

\* add_lines without line.strip(): the lines are taken as they are
RulePatterns_unstripped(lines) ==
    SelectSeq(lines, LAMBDA line : ~(line = <<>> \/ StartsWith(line, "#")))

\* add_lines: the patterns that reach add_rule, in order
RulePatterns(lines) ==
    LET stripped == [k \in 1..Len(lines) |-> Strip(lines[k], Whitespace)]
    IN  SelectSeq(stripped, LAMBDA line : ~(line = <<>> \/ StartsWith(line, "#")))

(***************************************************************************)
(* Names used as inputs: the patterns and paths of the module demos        *)
(* (pattern_processor.py 358-372, ignore_parser.py 326-336) and of the     *)
(* documented examples.                                                    *)
(***************************************************************************)
p_star_py == <<"*", ".", "p", "y">>
p_root_only == <<"/", "r", "o", "o", "t", "-", "o", "n", "l", "y">>
p_foo == <<"f", "o", "o">>
p_rec_log == <<"*", "*", "/", "*", ".", "l", "o", "g">>
p_a_rec_b == <<"a", "/", "*", "*", "/", "b">>
p_test_digit == <<"t", "e", "s", "t", "[", "0", "-", "9", "]", ".", "t", "x", "t">>
p_file_bang == <<"f", "i", "l", "e", "[", "!", "a", "-", "c", "]", ".", "d", "a", "t">>
p_file_caret == <<"f", "i", "l", "e", "[", "^", "a", "-", "c", "]", ".", "d", "a", "t">>
p_star_log == <<"*", ".", "l", "o", "g">>
p_not_important == <<"!", "i", "m", "p", "o", "r", "t", "a", "n", "t", ".", "l", "o", "g">>
p_build == <<"b", "u", "i", "l", "d">>
p_build_dir == <<"b", "u", "i", "l", "d", "/">>
p_not_build_dir == <<"!", "b", "u", "i", "l", "d", "/">>
p_root_build_dir == <<"/", "b", "u", "i", "l", "d", "/">>
p_venv_dir == <<".", "v", "e", "n", "v", "/">>
p_broken == <<"[", "]", "b", "r", "o", "k", "e", "n">>
p_bad_range == <<"[", "b", "-", "a", "]">>
p_bad_escape == <<"[", "a", BSL, "]">>
p_slash_slash_x == <<"/", "/", "x">>
p_class_escaped == <<"[", "a", BSL, "]", "b", "]">>
p_not_out_o == <<"!", "o", "u", "t", ".", "o">>
p_path_star_sub == <<"p", "a", "t", "h", "/", "*", "/", "s", "u", "b">>

n_x_py == <<"x", ".", "p", "y">>
n_root_only == <<"r", "o", "o", "t", "-", "o", "n", "l", "y">>
n_app_log == <<"a", "p", "p", ".", "l", "o", "g">>
n_important_log == <<"i", "m", "p", "o", "r", "t", "a", "n", "t", ".", "l", "o", "g">>
n_build == <<"b", "u", "i", "l", "d">>
n_build_out == <<"b", "u", "i", "l", "d", "/", "o", "u", "t", ".", "o">>
n_build_sub_file == <<"b", "u", "i", "l", "d", "/", "s", "u", "b", "/", "f", "i", "l", "e">>
n_venv == <<".", "v", "e", "n", "v">>
n_venv_lib == <<".", "v", "e", "n", "v", "/", "l", "i", "b">>
n_main_py == <<"m", "a", "i", "n", ".", "p", "y">>
n_test == <<"t", "e", "s", "t">>
n_dot_txt == <<".", "t", "x", "t">>
n_file == <<"f", "i", "l", "e">>
n_dot_dat == <<".", "d", "a", "t">>
n_path_x_sub == <<"p", "a", "t", "h", "/", "x", "/", "s", "u", "b">>
n_path_x_y_sub == <<"p", "a", "t", "h", "/", "x", "/", "y", "/", "s", "u", "b">>
n_path_sub == <<"p", "a", "t", "h", "/", "s", "u", "b">>

(***************************************************************************)
(* Bounds of the inputs                                                    *)
(***************************************************************************)
MaxPatLen == 2
MaxPathLen == 3
MaxFill == 2
MaxRules == 2

\* The strings over alphabet of length 0..n
StringsUpTo(alphabet, n) == UNION {[1..k -> alphabet] : k \in 0..n}

\* Generated patterns and paths: every string up to the bound
PatAlphabet == {"a", "*", "?", "/", "[", "]", "!"}
PathAlphabet == {"a", "b", "/", NL}
GenPatterns == StringsUpTo(PatAlphabet, MaxPatLen)
GenPaths == StringsUpTo(PathAlphabet, MaxPathLen)

\* pre \o w \o suf for the fillers w
Around(pre, fillers, suf) == {pre \o w \o suf : w \in fillers}
Product(A, B) == {a \o b : a \in A, b \in B}

DirPrefixes == {<<>>, <<"a", "/">>, <<"a", "/", "b", "/">>, <<"x">>, <<"a", "/", "x">>}
Suffixes == {<<>>, <<"c">>, <<NL>>, <<"/", "a">>, <<"/", NL, "a">>,
             <<"/", "s", "u", "b", "/", "f", "i", "l", "e">>}

\* The candidate paths that go with each named pattern
ClassFill == StringsUpTo({"0", "5", "9", "A", "a", "d", "!", "/"}, MaxFill)
MidFill == StringsUpTo({"x", "/"}, MaxFill + 2)

NamedInputs ==
    ({p_test_digit} \X Around(n_test, ClassFill, n_dot_txt))
    \cup ({p_file_bang, p_file_caret} \X Around(n_file, ClassFill, n_dot_dat))
    \cup ({p_star_py} \X Product(DirPrefixes, Product({n_x_py}, Suffixes)))
    \cup ({p_root_only} \X Product(DirPrefixes, Product({n_root_only}, Suffixes)))
    \cup ({p_foo} \X Product(DirPrefixes, Product({p_foo}, Suffixes)))
    \cup ({p_rec_log} \X Product(DirPrefixes, Product({n_app_log}, Suffixes)))
    \cup ({p_a_rec_b} \X Around(<<"a">>, MidFill, <<"b">>))
    \cup ({p_broken} \X Product(DirPrefixes, Product({p_broken}, Suffixes)))
    \cup ({p_bad_range, p_bad_escape, p_class_escaped} \X {<<"a">>, <<"b">>})
    \cup ({p_path_star_sub} \X {n_path_x_sub, n_path_x_y_sub, n_path_sub, n_path_x_sub \o <<NL>>})
    \cup ({p_slash_slash_x} \X {<<"x">>, <<"/", "x">>, <<"/", "/", "x">>, <<"a", "/", "x">>})
    \cup ({p_build, p_build_dir, p_not_build_dir, p_root_build_dir}
            \X Product(DirPrefixes, Product({n_build}, Suffixes)))

Inputs == (GenPatterns \X GenPaths) \cup NamedInputs

(***************************************************************************)
(* The menus the calls on the parser draw their arguments from             *)
(***************************************************************************)
\* The sample ignore file of the module demo (ignore_parser.py 327-330)
DemoText == JoinWith(<<p_star_log, p_build_dir, p_venv_dir, p_not_important>>, <<NL>>) \o <<NL>>
\* Comments, one of them indented, blank lines and padded lines
CommentText ==
    JoinWith(<< <<"#", " ", "c">>, <<>>, <<" ">> \o p_star_log \o <<" ">>,
                <<" ", "#", "c">>, <<" ">>, p_not_important >>, <<NL>>)
TextMenu == {<<>>, DemoText, CommentText}

PatternMenu == {p_star_log, p_not_important}

n_base == <<"/", "r">>
\* A base path that is not the working directory: its subdirectory build
n_base_build == n_base \o <<"/">> \o n_build
n_abs_build_build == n_base_build \o <<"/">> \o n_build
BaseMenu == {NoBase, n_base, n_base_build}

\* The candidate paths of the demo, in its order
DemoPaths == <<n_app_log, n_important_log, n_build, n_build_out, n_venv, n_venv_lib,
               n_main_py>>
PathMenu == {n_app_log, n_important_log, n_build, n_abs_build_build}
n_dot_main_py == <<".", "/">> \o n_main_py
PathListMenu == {DemoPaths, <<n_dot_main_py, n_app_log, n_dot_main_py>>, <<>>}

\* The file system: which paths are directories
FsMenu == {{}, {n_build, n_venv}}

(***************************************************************************)
(* IgnoreParser: the queries                                               *)
(***************************************************************************)
\* A loop that stops at the first rule that matches (first match wins)
MatchesLoop_first(rs, k, norm, dir, matched) ==
    \E j \in k..Len(rs) :
        /\ IgnoreRule_matches(rs[j], norm, dir)
        /\ ~rs[j].negated
        /\ \A i \in k..(j - 1) : ~IgnoreRule_matches(rs[i], norm, dir)

\* The for loop of IgnoreParser.matches from rule number k on
RECURSIVE MatchesLoop(_, _, _, _, _)
MatchesLoop(rs, k, norm, dir, matched) ==
    IF k > Len(rs) THEN matched
    ELSE MatchesLoop(rs, k + 1, norm, dir,
            IF IgnoreRule_matches(rs[k], norm, dir) THEN ~rs[k].negated ELSE matched)

Parser_matches(rs, base, fs, path, is_dir) ==
    LET norm == normalize_path(rel_to_base(base, path))
    IN  MatchesLoop(rs, 1, norm, is_dir \/ fs_is_dir(fs, path), FALSE)

\* A filter that never asks the file system whether a path is a directory
Parser_filter_nofs(rs, base, fs, paths) ==
    SelectSeq(paths, LAMBDA p : ~Parser_matches(rs, base, {}, p, FALSE))

\* A filter that returns the normalised path, not the path it was given
Parser_filter_norm(rs, base, fs, paths) ==
    LET kept == SelectSeq(paths, LAMBDA p : ~Parser_matches(rs, base, fs, p, FALSE))
    IN  [k \in 1..Len(kept) |-> normalize_path(kept[k])]

\* filter: str(p) of the paths p that matches(p) does not ignore; the paths
\* are strings, and str(p) is p
Parser_filter(rs, base, fs, paths) ==
    SelectSeq(paths, LAMBDA p : ~Parser_matches(rs, base, fs, p, FALSE))

\* explain: one entry for each rule that matches, in the order of the rules
Explanation(rule) ==
    [rule |-> rule.pattern,
     note |-> IF rule.negated THEN "negated" ELSE "applied",
     decision |-> IF ~rule.negated THEN "ignored" ELSE "kept"]

\* An explain that reports only the rule that decides
Parser_explain_deciding(rs, base, fs, path, is_dir) ==
    LET norm == normalize_path(rel_to_base(base, path))
        dir == is_dir \/ fs_is_dir(fs, path)
        hit == SelectSeq(rs, LAMBDA r : IgnoreRule_matches(r, norm, dir))
    IN  IF hit = <<>> THEN <<>> ELSE <<Explanation(hit[Len(hit)])>>

Parser_explain(rs, base, fs, path, is_dir) ==
    LET norm == normalize_path(rel_to_base(base, path))
        dir == is_dir \/ fs_is_dir(fs, path)
        hit == SelectSeq(rs, LAMBDA r : IgnoreRule_matches(r, norm, dir))
    IN  [k \in 1..Len(hit) |-> Explanation(hit[k])]

(***************************************************************************)
(* State                                                                   *)
(***************************************************************************)
VARIABLES
    \* IgnoreParser: self.rules, self.base_path; the directories of the file
    \* system; the last call made on the parser and what it returned
    rules, base_path, fs, last,
    \* One pattern taken through PatternProcessor and IgnoreRule:
    \* the inputs, the regex text, the rule, and the two answers
    pattern, path, is_dir, stage, regex_str, rule, accepted, matched,
    \* One run of the command line: the ignore file on disk, and the process
    \* (its command, its position, and what it has written and returned)
    ignore_file, proc

parserVars == <<rules, base_path, fs, last>>
ruleVars == <<pattern, path, is_dir, stage, regex_str, rule, accepted, matched>>
cliVars == <<ignore_file, proc>>
vars == <<rules, base_path, fs, last, pattern, path, is_dir, stage, regex_str, rule,
          accepted, matched, ignore_file, proc>>

NoRule == [ok |-> FALSE]
NoCall == [op |-> "none"]
NoFile == [status |-> "missing"]
NoProc == [pc |-> "none"]

ParserIdle ==
    /\ rules = <<>>
    /\ base_path = NoBase
    /\ fs = {}
    /\ last = NoCall

CliIdle ==
    /\ ignore_file = NoFile
    /\ proc = NoProc

RuleIdle ==
    /\ pattern = <<>>
    /\ path = <<>>
    /\ is_dir = FALSE
    /\ stage = "idle"
    /\ regex_str = <<>>
    /\ rule = NoRule
    /\ accepted = FALSE
    /\ matched = FALSE

(***************************************************************************)
(* RuleSpec: one pattern and one candidate path, taken through             *)
(* pattern_to_regex, re.compile / match, from_pattern and                  *)
(* IgnoreRule.matches.                                                     *)
(***************************************************************************)
RuleInit ==
    /\ ParserIdle
    /\ CliIdle
    /\ \E io \in Inputs : pattern = io[1] /\ path = io[2]
    /\ is_dir = FALSE
    /\ stage = "input"
    /\ regex_str = <<>>
    /\ rule = NoRule
    /\ accepted = FALSE
    /\ matched = FALSE

\* A conversion that returns what a processor last produced for another
\* text
PatternToRegex_stale ==
    /\ stage = "input"
    /\ regex_str' = pattern_to_regex(path)
    /\ stage' = "converted"
    /\ UNCHANGED <<pattern, path, is_dir, rule, accepted, matched>>
    /\ UNCHANGED parserVars
    /\ UNCHANGED cliVars

\* processor.pattern_to_regex(pattern)
PatternToRegex ==
    /\ stage = "input"
    /\ regex_str' = pattern_to_regex(pattern)
    /\ stage' = "converted"
    /\ UNCHANGED <<pattern, path, is_dir, rule, accepted, matched>>
    /\ UNCHANGED parserVars
    /\ UNCHANGED cliVars

\* re.compile(regex_str).match(path); nothing when re.compile raises
ReMatch ==
    /\ stage = "converted"
    /\ re_compile(regex_str).ok
    /\ accepted' = re_match(re_compile(regex_str), path)
    /\ stage' = "accepted"
    /\ UNCHANGED <<pattern, path, is_dir, regex_str, rule, matched>>
    /\ UNCHANGED parserVars
    /\ UNCHANGED cliVars

\* IgnoreRule.from_pattern(pattern); nothing when it raises
FromPattern ==
    /\ stage = "accepted"
    /\ from_pattern(pattern).ok
    /\ rule' = from_pattern(pattern)
    /\ stage' = "built"
    /\ UNCHANGED <<pattern, path, is_dir, regex_str, accepted, matched>>
    /\ UNCHANGED parserVars
    /\ UNCHANGED cliVars

\* rule.matches(path, is_dir)
RuleMatches ==
    /\ stage = "built"
    /\ \E d \in BOOLEAN :
        /\ is_dir' = d
        /\ matched' = IgnoreRule_matches(rule, path, d)
    /\ stage' = "matched"
    /\ UNCHANGED <<pattern, path, regex_str, rule, accepted>>
    /\ UNCHANGED parserVars
    /\ UNCHANGED cliVars

RuleNext == PatternToRegex \/ ReMatch \/ FromPattern \/ RuleMatches

RuleSpec == RuleInit /\ [][RuleNext]_vars

(***************************************************************************)
(* Spec: one IgnoreParser.  It is constructed with no rules; from_string   *)
(* (from_file reads the same lines from a file) builds a new one, add_rule *)
(* appends, and matches, filter and explain ask.                           *)
(***************************************************************************)
Init ==
    /\ rules = <<>>
    /\ base_path \in BaseMenu
    /\ fs \in FsMenu
    /\ last = NoCall
    /\ RuleIdle
    /\ CliIdle

\* IgnoreParser.from_string(text, base_path=base); it raises, and there is no
\* parser, when a pattern does not compile
FromString(text, base) ==
    LET patterns == RulePatterns(splitlines(text))
    IN  /\ \A k \in 1..Len(patterns) : from_pattern(patterns[k]).ok
        /\ rules' = [k \in 1..Len(patterns) |-> from_pattern(patterns[k])]
        /\ base_path' = base
        /\ last' = [op |-> "from_string", text |-> text]
        /\ UNCHANGED fs
        /\ UNCHANGED ruleVars
        /\ UNCHANGED cliVars

\* An add_rule that puts the new rule first
AddRule_front(pat) ==
    /\ Len(rules) < MaxRules
    /\ from_pattern(pat).ok
    /\ rules' = <<from_pattern(pat)>> \o rules
    /\ last' = [op |-> "add_rule", pattern |-> pat]
    /\ UNCHANGED <<base_path, fs>>
    /\ UNCHANGED ruleVars
    /\ UNCHANGED cliVars

\* An add_rule that drops the rules that were there
AddRule_replacing(pat) ==
    /\ Len(rules) < MaxRules
    /\ from_pattern(pat).ok
    /\ rules' = <<from_pattern(pat)>>
    /\ last' = [op |-> "add_rule", pattern |-> pat]
    /\ UNCHANGED <<base_path, fs>>
    /\ UNCHANGED ruleVars
    /\ UNCHANGED cliVars

\* parser.add_rule(pat)
AddRule(pat) ==
    /\ Len(rules) < MaxRules
    /\ from_pattern(pat).ok
    /\ rules' = Append(rules, from_pattern(pat))
    /\ last' = [op |-> "add_rule", pattern |-> pat]
    /\ UNCHANGED <<base_path, fs>>
    /\ UNCHANGED ruleVars
    /\ UNCHANGED cliVars

\* A matches whose answer carries over from the matches call before it
Matches_carrying(p, d) ==
    /\ last' = [op |-> "matches", path |-> p, is_dir |-> d,
                result |-> \/ Parser_matches(rules, base_path, fs, p, d)
                           \/ (last.op = "matches" /\ last.result)]
    /\ UNCHANGED <<rules, base_path, fs>>
    /\ UNCHANGED ruleVars
    /\ UNCHANGED cliVars

\* parser.matches(p, d)
Matches(p, d) ==
    /\ last' = [op |-> "matches", path |-> p, is_dir |-> d,
                result |-> Parser_matches(rules, base_path, fs, p, d)]
    /\ UNCHANGED <<rules, base_path, fs>>
    /\ UNCHANGED ruleVars
    /\ UNCHANGED cliVars

\* parser.filter(ps)
Filter(ps) ==
    /\ last' = [op |-> "filter", paths |-> ps,
                result |-> Parser_filter(rules, base_path, fs, ps)]
    /\ UNCHANGED <<rules, base_path, fs>>
    /\ UNCHANGED ruleVars
    /\ UNCHANGED cliVars

\* parser.explain(p, d)
Explain(p, d) ==
    /\ last' = [op |-> "explain", path |-> p, is_dir |-> d,
                result |-> Parser_explain(rules, base_path, fs, p, d)]
    /\ UNCHANGED <<rules, base_path, fs>>
    /\ UNCHANGED ruleVars
    /\ UNCHANGED cliVars

Next ==
    \/ \E text \in TextMenu, base \in BaseMenu : FromString(text, base)
    \/ \E pat \in PatternMenu : AddRule(pat)
    \/ \E p \in PathMenu, d \in BOOLEAN : Matches(p, d)
    \/ \E ps \in PathListMenu : Filter(ps)
    \/ \E p \in PathMenu, d \in BOOLEAN : Explain(p, d)

Spec == Init /\ [][Next]_vars

(***************************************************************************)
(* CliSpec: one run of the command line, for the commands that read the    *)
(* ignore file: checklist and tree.  What is written is kept as the set of *)
(* the paths that are listed.                                              *)
(***************************************************************************)
\* An ignore file with a pattern that does not compile
BadText == p_star_log \o <<NL>> \o p_bad_range \o <<NL>>

\* An ignore file with the one rule build, which has no / after it
BuildText == p_build \o <<NL>>

\* An ignore file that ignores the directory build and keeps the files out.o
KeepText == p_build_dir \o <<NL>> \o p_not_out_o \o <<NL>>

IgnoreFileMenu ==
    {[status |-> "missing"], [status |-> "unreadable"]}
        \cup {[status |-> "readable", text |-> t] :
                   t \in TextMenu \cup {BadText, BuildText, KeepText}}

\* tree's root_dir: the project, a directory of it, a name that is no directory
RootMenu == {<<".">>, n_build, <<"x">>}

\* What the project holds: the demo paths whose parents are directories
Parents(p) == DirectoryPrefixes(p) \ {p}
ProjectPaths(dirs) ==
    {DemoPaths[k] : k \in {j \in 1..Len(DemoPaths) : Parents(DemoPaths[j]) \subseteq dirs}}

\* glob("**/*") in root_dir: the paths beneath it, relative to it
PathsBeneath(dirs, root_dir) ==
    IF root_dir = <<".">> THEN ProjectPaths(dirs)
    ELSE {relative_to(p, root_dir) : p \in {q \in ProjectPaths(dirs) : root_dir \in Parents(q)}}

\* build_tree_structure with a filter that ignores nothing: a node for each
\* part of each path, named here by the path that leads to it
build_tree_structure(paths) == UNION {DirectoryPrefixes(p) : p \in paths}

\* The path generate_tree asks the parser about for the path p beneath
\* root_dir: p itself for the full tree, the full path for a partial tree
PathForIgnore(root_dir, p) ==
    IF root_dir = <<".">> THEN p ELSE cwd \o <<"/">> \o root_dir \o <<"/">> \o p

CliInit ==
    /\ rules = <<>>
    /\ base_path = NoBase
    /\ fs \in FsMenu
    /\ last = NoCall
    /\ RuleIdle
    /\ ignore_file \in IgnoreFileMenu
    /\ \E c \in {"checklist", "tree"}, r \in RootMenu :
            proc = [pc |-> "main", command |-> c, root_dir |-> r, parser |-> FALSE,
                    written |-> FALSE, kept |-> {}, nodes |-> {}, status |-> 0]

\* main: the command is dispatched
Main ==
    /\ proc.pc = "main"
    /\ proc' = [proc EXCEPT !.pc = IF proc.command = "tree" THEN "check_root" ELSE "load"]
    /\ UNCHANGED <<ignore_file, parserVars, ruleVars>>

\* generate_tree, step 1: sys.exit(1) when root_dir is no directory
CheckRootDir ==
    /\ proc.pc = "check_root"
    /\ proc' = IF fs_is_dir(fs, proc.root_dir)
               THEN [proc EXCEPT !.pc = "load"]
               ELSE [proc EXCEPT !.pc = "exited", !.status = 1]
    /\ UNCHANGED <<ignore_file, parserVars, ruleVars>>

\* The ignore file can be opened and every pattern of it compiles
Loadable(file) ==
    /\ file.status = "readable"
    /\ \A k \in 1..Len(RulePatterns(splitlines(file.text))) :
            from_pattern(RulePatterns(splitlines(file.text))[k]).ok

\* A from_file that returns a parser with no rules when the file cannot be
\* opened
FromFile_lenient ==
    /\ proc.pc = "load"
    /\ IF Loadable(ignore_file) \/ ignore_file.status # "readable"
       THEN /\ rules' = IF ignore_file.status # "readable" THEN <<>>
                         ELSE [k \in 1..Len(RulePatterns(splitlines(ignore_file.text))) |->
                                from_pattern(RulePatterns(splitlines(ignore_file.text))[k])]
            /\ base_path' = cwd
            /\ proc' = [proc EXCEPT !.pc = "scan", !.parser = TRUE]
       ELSE /\ proc' = [proc EXCEPT !.pc = "raised"]
            /\ UNCHANGED <<rules, base_path>>
    /\ UNCHANGED <<fs, last, ignore_file, ruleVars>>

\* IgnoreParser.from_file(ignore_file): the parser, its base the directory of
\* the file; when open or a pattern raises, the error goes to the caller and
\* there is no parser
FromFile ==
    /\ proc.pc = "load"
    /\ IF Loadable(ignore_file)
       THEN /\ rules' = [k \in 1..Len(RulePatterns(splitlines(ignore_file.text))) |->
                            from_pattern(RulePatterns(splitlines(ignore_file.text))[k])]
            /\ base_path' = cwd
            /\ proc' = [proc EXCEPT !.pc = "scan", !.parser = TRUE]
       ELSE /\ proc' = [proc EXCEPT !.pc = "raised"]
            /\ UNCHANGED <<rules, base_path>>
    /\ UNCHANGED <<fs, last, ignore_file, ruleVars>>

\* generate_checklist: the paths of the project that the parser keeps
GenerateChecklist ==
    /\ proc.pc = "scan"
    /\ proc.command = "checklist"
    /\ proc' = [proc EXCEPT !.pc = "returned", !.written = TRUE,
                    !.kept = {p \in ProjectPaths(fs) :
                                ~Parser_matches(rules, base_path, fs, p, FALSE)}]
    /\ UNCHANGED <<ignore_file, parserVars, ruleVars>>

\* generate_tree, steps 5 to 9: the paths beneath root_dir that the parser
\* keeps; for a partial tree it is asked about the full path
GenerateTree ==
    /\ proc.pc = "scan"
    /\ proc.command = "tree"
    /\ LET filtered_relative_paths ==
                {p \in PathsBeneath(fs, proc.root_dir) :
                    ~Parser_matches(rules, base_path, fs,
                                    PathForIgnore(proc.root_dir, p), FALSE)}
       IN  proc' = [proc EXCEPT !.pc = "returned", !.written = TRUE,
                                !.kept = filtered_relative_paths,
                                !.nodes = build_tree_structure(filtered_relative_paths)]
    /\ UNCHANGED <<ignore_file, parserVars, ruleVars>>

\* main: exit status 1 after an exception, 0 otherwise
Exit ==
    /\ proc.pc \in {"raised", "returned"}
    /\ proc' = [proc EXCEPT !.pc = "exited",
                            !.status = IF proc.pc = "raised" THEN 1 ELSE 0]
    /\ UNCHANGED <<ignore_file, parserVars, ruleVars>>

CliNext == Main \/ CheckRootDir \/ FromFile \/ GenerateChecklist \/ GenerateTree \/ Exit

CliSpec == CliInit /\ [][CliNext]_vars

(***************************************************************************)
(* RaceSpec: one matches call that runs while another thread makes one     *)
(* add_rule call on the same parser.  The for loop of matches takes one    *)
(* rule of the live list per step (the list iterator compares its index    *)
(* with the length of the list each time); list.append is one step.        *)
(***************************************************************************)
\* The rule lists the parser can hold when the two calls start
RaceRuleMenu ==
    UNION {{[k \in 1..n |-> from_pattern(pats[k])] : pats \in [1..n -> PatternMenu]} :
              n \in 0..(MaxRules - 1)}

RaceInit ==
    /\ rules \in RaceRuleMenu
    /\ base_path \in BaseMenu
    /\ fs \in FsMenu
    /\ last = NoCall
    /\ RuleIdle
    /\ ignore_file = NoFile
    /\ \E p \in PathMenu, d \in BOOLEAN :
            proc = [pc |-> "call", path |-> p, is_dir |-> d, norm |-> <<>>, index |-> 0,
                    matched |-> FALSE, result |-> FALSE]

\* matches, step 1: norm is computed and matched is False
MatchesBegin ==
    /\ proc.pc = "call"
    /\ proc' = [proc EXCEPT !.pc = "loop",
                            !.norm = normalize_path(rel_to_base(base_path, proc.path)),
                            !.index = 0,
                            !.matched = FALSE]
    /\ UNCHANGED <<ignore_file, parserVars, ruleVars>>

\* matches, step 2: the next rule of self.rules, or return matched when the
\* iterator has reached the end of the list
MatchesStep ==
    /\ proc.pc = "loop"
    /\ IF proc.index < Len(rules)
       THEN LET r == rules[proc.index + 1]
            IN  proc' = [proc EXCEPT
                    !.index = proc.index + 1,
                    !.matched = IF IgnoreRule_matches(r, proc.norm,
                                        proc.is_dir \/ fs_is_dir(fs, proc.path))
                                THEN ~r.negated ELSE proc.matched]
       ELSE proc' = [proc EXCEPT !.pc = "done", !.result = proc.matched]
    /\ UNCHANGED <<ignore_file, parserVars, ruleVars>>

\* The one add_rule call of the other thread
RaceAddRule == last = NoCall /\ \E pat \in PatternMenu : AddRule(pat)

RaceNext == MatchesBegin \/ MatchesStep \/ RaceAddRule

RaceSpec == RaceInit /\ [][RaceNext]_vars

(***************************************************************************)
(* Properties of the parser (Spec)                                         *)
(***************************************************************************)
RulePatternsOf(rs) == [k \in 1..Len(rs) |-> rs[k].pattern]
Max(S) == CHOOSE m \in S : \A k \in S : k <= m

\* The path and the directory flag the rules of the last matches call saw,
\* and the rules that match them
LastNorm == normalize_path(rel_to_base(base_path, last.path))
LastDir == last.is_dir \/ fs_is_dir(fs, last.path)
Matching == {k \in 1..Len(rules) : IgnoreRule_matches(rules[k], LastNorm, LastDir)}

\* C1: matches is last-match-wins.  It returns true iff some rule matches
\* the path and the last rule that matches, in insertion order, is not
\* negated; it returns false when no rule matches, also with no rules.
\* Rules *.log, !important.log ignore app.log and keep important.log; in the
\* reverse order they ignore important.log.
C1_LastMatchWins ==
    last.op = "matches" =>
        /\ last.result = (Matching # {} /\ ~rules[Max(Matching)].negated)
        /\ rules = <<>> => ~last.result
        /\ RulePatternsOf(rules) = <<p_star_log, p_not_important>> =>
                /\ last.path = n_app_log => last.result
                /\ last.path = n_important_log => ~last.result
        /\ RulePatternsOf(rules) = <<p_not_important, p_star_log>> =>
                (last.path = n_important_log => last.result)

\* A negated rule after a plain one, both matching: the path is kept
C1_Witness ==
    /\ last.op = "matches"
    /\ Len(rules) = 2
    /\ Matching = {1, 2}
    /\ ~rules[1].negated
    /\ rules[2].negated
    /\ ~last.result

\* C2: with the rules *.log, build/, .venv/, !important.log, in that order,
\* and build and .venv the only directories, filter keeps exactly
\* important.log and main.py, in that order, of the paths app.log,
\* important.log, build, build/out.o, .venv, .venv/lib, main.py.
C2_EndToEnd ==
    ( /\ last.op = "filter"
      /\ last.paths = DemoPaths
      /\ RulePatternsOf(rules) = <<p_star_log, p_build_dir, p_venv_dir, p_not_important>>
      /\ fs = {n_build, n_venv} )
    => last.result = <<n_important_log, n_main_py>>

C2_Witness ==
    /\ last.op = "filter"
    /\ last.paths = DemoPaths
    /\ RulePatternsOf(rules) = <<p_star_log, p_build_dir, p_venv_dir, p_not_important>>
    /\ fs = {n_build, n_venv}
    /\ last.result = <<n_important_log, n_main_py>>

(***************************************************************************)
(* Properties of one pattern (RuleSpec)                                    *)
(***************************************************************************)
\* accepted holds the answer of the compiled matcher; rule holds the rule
Judged == stage \in {"accepted", "built", "matched"}
Built == stage \in {"built", "matched"}

NoNewline(text) == ~Contains(text, NL)
\* The pattern names something: it is not empty and not only slashes
Names(pat) == \E k \in 1..Len(pat) : pat[k] # "/"
Segments(text) == Split(text, "/")
LastSegment(text) == Segments(text)[Len(Segments(text))]

\* Glob semantics inside one segment: * is any run of characters, ? is one
\* character, every other character is itself
RECURSIVE GlobSegment(_, _)
GlobSegment(pat, seg) ==
    IF pat = <<>> THEN seg = <<>>
    ELSE IF Head(pat) = "*"
    THEN GlobSegment(Tail(pat), seg) \/ (seg # <<>> /\ GlobSegment(pat, Tail(seg)))
    ELSE /\ seg # <<>>
         /\ Head(pat) = "?" \/ Head(pat) = Head(seg)
         /\ GlobSegment(Tail(pat), Tail(seg))

\* path is pre, one filler w, suf
IsAround(pre, w, suf) == path = pre \o w \o suf

\* C3: a negated class, [!...] or [^...], matches exactly one character that
\* is not in the listed set: file[!a-c].dat and file[^a-c].dat accept
\* filed.dat and reject filea.dat.  (Stated for the characters other than /.)
C3_NegatedClass ==
    (Judged /\ pattern \in {p_file_bang, p_file_caret}) =>
        \A w \in ClassFill :
            (IsAround(n_file, w, n_dot_dat) /\ ~Contains(w, "/")) =>
                (accepted <=> (Len(w) = 1 /\ w[1] \notin {"a", "b", "c"}))

\* C4: a class [...] matches exactly one character that is a member of it:
\* test[0-9].txt accepts test5.txt and rejects testA.txt and test55.txt.
C4_Class ==
    (Judged /\ pattern = p_test_digit) =>
        \A w \in ClassFill :
            IsAround(n_test, w, n_dot_txt) =>
                (accepted <=> (Len(w) = 1 /\ w[1] \in Digits))

C4_Witness ==
    /\ Judged
    /\ pattern = p_test_digit
    /\ IsAround(n_test, <<"5">>, n_dot_txt)
    /\ accepted

\* C5: the matcher is anchored to the whole path.  *.py accepts x.py and
\* a/b/x.py and rejects x.pyc, and no matcher accepts a path in which what
\* it matches is followed by more characters.
C5_WholePath ==
    Judged =>
        /\ pattern = p_star_py =>
                /\ path \in {n_x_py, <<"a", "/", "b", "/">> \o n_x_py} => accepted
                /\ path = n_x_py \o <<"c">> => ~accepted
        /\ (Names(pattern) /\ accepted) => Len(path) \in RunSeq(re_compile(regex_str).nodes, {0}, path)

\* C6: a pattern that starts with / is matched from the top of the path
\* only: /root-only accepts root-only and no other path.
C6_RootAnchored ==
    (Judged /\ pattern = p_root_only) => (accepted <=> path = n_root_only)

\* C7: a pattern without / accepts a path iff the last segment of the path,
\* as a whole, matches the pattern with * and ? bounded by the segment; foo
\* accepts foo and dirs/foo and neither xfoo nor a/xfoo.  (Stated for
\* patterns of *, ? and letters and for paths without a newline.)
C7_LastSegment ==
    ( /\ Judged
      /\ pattern # <<>>
      /\ \A k \in 1..Len(pattern) : pattern[k] \in {"*", "?", "a", "f", "o"}
      /\ NoNewline(path) )
    => (accepted <=> GlobSegment(pattern, LastSegment(path)))

\* C8: ** as a whole segment matches zero or more whole segments: **/*.log
\* accepts app.log and a/b/app.log, and a/**/b accepts exactly the paths
\* whose first segment is a and whose last, another one, is b: not ab, axb
\* or a/xb.  (Stated for paths without a newline.)
C8_RecursiveWildcard ==
    Judged =>
        /\ (pattern = p_rec_log /\ path \in {n_app_log, <<"a", "/", "b", "/">> \o n_app_log})
                => accepted
        /\ (pattern = p_a_rec_b /\ NoNewline(path)) =>
                (accepted <=> /\ Len(Segments(path)) >= 2
                              /\ Segments(path)[1] = <<"a">>
                              /\ LastSegment(path) = <<"b">>)

\* C9: the matcher of a rule built from p/ accepts a path P iff the matcher
\* of p accepts P or a Q with P = Q/suffix.  The rule from build/ matches
\* build as a directory and build/sub/file, and not build as a file.  (The
\* equivalence is stated for the rules from build/ and /build/.)
C9_DirectoryOnly ==
    /\ (Built /\ pattern \in {p_build_dir, p_root_build_dir}) =>
            (re_match(rule.regex, path) <=>
                \E q \in DirectoryPrefixes(path) :
                    re_match(re_compile(pattern_to_regex(Cleaned(pattern))), q))
    /\ (stage = "matched" /\ pattern = p_build_dir) =>
            /\ (path = n_build /\ is_dir) => matched
            /\ (path = n_build_sub_file /\ ~is_dir) => matched
            /\ (path = n_build /\ ~is_dir) => ~matched

\* C10: IgnoreRule.matches is true iff the matcher accepts the path and the
\* rule is not directory-only, or is_dir is true, or the path is not the
\* pattern without its leading ! and trailing /.  The rules from !build/ and
\* from /build/ do not match build when is_dir is false.  (The equivalence
\* is stated for the patterns build, build/ and !build/.)
C10_RuleMatches ==
    stage = "matched" =>
        /\ pattern \in {p_build, p_build_dir, p_not_build_dir} =>
                (matched <=> /\ re_match(rule.regex, path)
                             /\ ~rule.dir_only \/ is_dir \/ path # Cleaned(pattern))
        /\ (pattern \in {p_not_build_dir, p_root_build_dir} /\ path = n_build /\ ~is_dir)
                => ~matched

\* C11: a directory-only rule never matches a plain file named like the
\* directory, at the root or in a subdirectory: for the rule from build/ and
\* a path whose last segment is build, matches(path, is_dir = false) is false
\* when the rule matches no proper ancestor of the path.
C11_DirOnlyAtDepth ==
    ( /\ stage = "matched"
      /\ pattern = p_build_dir
      /\ ~is_dir
      /\ LastSegment(path) = n_build
      /\ \A q \in DirectoryPrefixes(path) \ {path} : ~IgnoreRule_matches(rule, q, TRUE) )
    => ~matched

(***************************************************************************)
(* More properties of the parser (Spec)                                    *)
(***************************************************************************)
\* The positions of last.paths that matches(p) does not ignore, and the
\* i-th of them
KeptAt == {k \in 1..Len(last.paths) :
                ~Parser_matches(rules, base_path, fs, last.paths[k], FALSE)}
NthKept(i) == CHOOSE k \in KeptAt : Cardinality({j \in KeptAt : j <= k}) = i

\* C12: filter returns exactly the subsequence of the paths for which
\* matches is false, in their order: nothing added, doubled or reordered,
\* every kept path there and no ignored one.
C12_FilterSubsequence ==
    last.op = "filter" =>
        /\ Len(last.result) = Cardinality(KeptAt)
        /\ \A i \in 1..Len(last.result) : last.result[i] = last.paths[NthKept(i)]

\* Of ./main.py, app.log, ./main.py the two ./main.py are kept, as given
C12_Witness ==
    /\ last.op = "filter"
    /\ last.paths = <<n_dot_main_py, n_app_log, n_dot_main_py>>
    /\ last.result = <<n_dot_main_py, n_dot_main_py>>

\* The i-th smallest member of a set of numbers
NthOf(S, i) == CHOOSE k \in S : Cardinality({j \in S : j <= k}) = i

\* The lines of the text last loaded, each without the whitespace around it
LoadedLines == splitlines(last.text)
Trimmed(k) == Strip(LoadedLines[k], Whitespace)
\* The lines that are not blank and do not start with #, as they are written
\* and after the whitespace around them is removed
RuleLinesAsWritten ==
    {k \in 1..Len(LoadedLines) : Trimmed(k) # <<>> /\ ~StartsWith(LoadedLines[k], "#")}
RuleLinesTrimmed ==
    {k \in 1..Len(LoadedLines) : Trimmed(k) # <<>> /\ ~StartsWith(Trimmed(k), "#")}

\* C13, as stated: loading rules from text, blank lines and lines that start
\* with # produce no rule and every other line produces exactly one rule, in
\* the order of the lines.
C13_OneRulePerLine ==
    last.op = "from_string" => Len(rules) = Cardinality(RuleLinesAsWritten)

\* C13, amended: the whitespace around each line is removed first.  Lines
\* that are then empty or start with # produce no rule; every other line
\* produces exactly one rule, whose pattern is the line without the
\* whitespace around it, in the order of the lines.
C13_OneRulePerTrimmedLine ==
    last.op = "from_string" =>
        /\ Len(rules) = Cardinality(RuleLinesTrimmed)
        /\ \A i \in 1..Len(rules) : rules[i].pattern = Trimmed(NthOf(RuleLinesTrimmed, i))

\* A text with comments, blank lines and padded lines has been loaded
C13_Witness ==
    /\ last.op = "from_string"
    /\ last.text = CommentText
    /\ RulePatternsOf(rules) = <<p_star_log, p_not_important>>

\* C14: the rule sequence of a parser is append-only.  add_rule makes it
\* longer by exactly one, the new rule last, and every rule already there
\* keeps its position, pattern, matcher and flags; no other operation on the
\* parser changes the sequence.  (from_string constructs another parser.)
C14_AppendOnly ==
    [][ /\ last'.op = "add_rule" =>
            /\ Len(rules') = Len(rules) + 1
            /\ \A k \in 1..Len(rules) : rules'[k] = rules[k]
            /\ rules'[Len(rules')].pattern = last'.pattern
        /\ last'.op \in {"matches", "filter", "explain"} => rules' = rules ]_vars

\* add_rule has put a second, different rule after the first
C14_Witness ==
    /\ last.op = "add_rule"
    /\ Len(rules) = 2
    /\ rules[2].pattern = last.pattern
    /\ rules[1].pattern # rules[2].pattern

(***************************************************************************)
(* More properties of one pattern (RuleSpec)                               *)
(***************************************************************************)
\* What follows the [ that opens text cannot end a class: after a ! or ^ and
\* after a ] that comes first, there is no ]
Unclosed(text) ==
    LET r1 == Tail(text)
        r2 == IF r1 # <<>> /\ Head(r1) \in {"!", "^"} THEN Tail(r1) ELSE r1
        r3 == IF r2 # <<>> /\ Head(r2) = "]" THEN Tail(r2) ELSE r2
    IN  ~Contains(r3, "]")

\* The index of the first [ of the pattern
FirstBracket(pat) == CHOOSE i \in 1..Len(pat) : pat[i] = "[" /\ \A j \in 1..(i - 1) : pat[j] # "["

\* C15: a [ with no ] that can end a class does not make the conversion
\* fail: the [ becomes an escaped literal and the characters after it are
\* converted as usual.  The matcher of []broken accepts a path whose last
\* segment is the text []broken.
C15_MalformedClass ==
    /\ ( /\ stage # "input"
         /\ ~Contains(pattern, "/")
         /\ Contains(pattern, "[")
         /\ Unclosed(SubSeq(pattern, FirstBracket(pattern), Len(pattern))) )
       => /\ regex_str = <<"^", ".", "*">>
                            \o ConvertLoop(SubSeq(pattern, 1, FirstBracket(pattern) - 1), 0, <<>>)
                            \o <<BSL, "[">>
                            \o ConvertLoop(SubSeq(pattern, FirstBracket(pattern) + 1, Len(pattern)), 0, <<>>)
                            \o <<"$">>
          /\ re_compile(regex_str).ok
    /\ (Judged /\ pattern = p_broken /\ NoNewline(path) /\ LastSegment(path) = p_broken)
            => accepted

C15_Witness ==
    /\ Judged
    /\ pattern = p_broken
    /\ path = <<"a", "/">> \o p_broken
    /\ regex_str = <<"^", ".", "*", BSL, "[", BSL, "]", "b", "r", "o", "k", "e", "n", "$">>
    /\ accepted

\* C16: parsing a pattern never raises.  For every pattern, the regex that
\* pattern_to_regex returns compiles, and from_pattern returns a rule: every
\* bracket expression that is passed through as it is, is a class the regex
\* engine takes.
C16_NeverRaises ==
    stage # "input" => (re_compile(regex_str).ok /\ from_pattern(pattern).ok)

(***************************************************************************)
(* Properties of the command line (CliSpec)                                *)
(***************************************************************************)
\* C17: when the ignore file is missing or cannot be read, from_file raises
\* and there is no parser, not even one without rules; the checklist and
\* tree commands then write nothing and the process ends with exit status 1.
C17_FileFailurePropagated ==
    ignore_file.status \in {"missing", "unreadable"} =>
        /\ ~proc.parser
        /\ rules = <<>>
        /\ ~proc.written
        /\ proc.pc \notin {"scan", "returned"}
        /\ proc.pc = "exited" => proc.status = 1

\* The checklist command has ended after from_file raised for a missing file
C17_Witness ==
    /\ ignore_file.status = "missing"
    /\ proc.command = "checklist"
    /\ proc.pc = "exited"
    /\ proc.status = 1
    /\ ~proc.written

(***************************************************************************)
(* Properties of the queries (Spec)                                        *)
(***************************************************************************)
Queries == {"matches", "filter", "explain"}

\* What the query recorded in call returns when it is the only call made on
\* a parser with rules rs and base path base
QueryAlone(rs, base, dirs, call) ==
    CASE call.op = "matches" -> Parser_matches(rs, base, dirs, call.path, call.is_dir)
      [] call.op = "filter" -> Parser_filter(rs, base, dirs, call.paths)
      [] call.op = "explain" -> Parser_explain(rs, base, dirs, call.path, call.is_dir)

\* C18: matches, filter and explain are read-only: a query leaves the rule
\* sequence and the base path as they were, it returns what it returns when
\* it runs alone on that parser, and the query made before it would still
\* return the same result after it.
C18_QueriesReadOnly ==
    [][last'.op \in Queries =>
          /\ rules' = rules
          /\ base_path' = base_path
          /\ last'.result = QueryAlone(rules, base_path, fs, last')
          /\ last.op \in Queries => last.result = QueryAlone(rules', base_path', fs', last)]_vars

\* A filter that dropped some paths, asked of a parser with two rules and a
\* base path
C18_Witness ==
    /\ last.op = "filter"
    /\ Len(rules) = 2
    /\ base_path = n_base
    /\ Len(last.result) < Len(last.paths)
    /\ last.result # <<>>

\* C19: explain returns one entry for each rule that matches the path, in
\* insertion order, marked negated with decision kept for a negated rule and
\* applied with decision ignored otherwise; the decision of the last entry
\* is what matches returns for the same arguments, and an empty trace means
\* the path is kept.
C19_Explain ==
    last.op = "explain" =>
        LET trace == last.result
            ignored == Parser_matches(rules, base_path, fs, last.path, last.is_dir)
        IN  /\ Len(trace) = Cardinality(Matching)
            /\ \A i \in 1..Len(trace) :
                  LET r == rules[NthOf(Matching, i)]
                  IN  /\ trace[i].rule = r.pattern
                      /\ r.negated => trace[i].note = "negated" /\ trace[i].decision = "kept"
                      /\ ~r.negated => trace[i].note = "applied" /\ trace[i].decision = "ignored"
            /\ trace # <<>> => (trace[Len(trace)].decision = "ignored" <=> ignored)
            /\ trace = <<>> => ~ignored

\* Both *.log and !important.log are reported for important.log, in that
\* order, and the path is kept
C19_Witness ==
    /\ last.op = "explain"
    /\ last.path = n_important_log
    /\ Len(last.result) = 2
    /\ last.result[1] = [rule |-> p_star_log, note |-> "applied", decision |-> "ignored"]
    /\ last.result[2] = [rule |-> p_not_important, note |-> "negated", decision |-> "kept"]

\* The path the rules are to see for the path of the last call: relative to
\* the base for an absolute path under the base, and else as it is
Resolved ==
    IF base_path # NoBase /\ is_absolute(last.path) /\ IsRelativeTo(last.path, base_path)
    THEN relative_to(last.path, base_path)
    ELSE normalize_path(last.path)

\* C20: with a base path, an absolute path under the base is judged by its
\* path relative to the base, and an absolute path elsewhere by its absolute
\* form; a relative path, and every path when there is no base, is judged as
\* it is.  So an absolute path under the base gets the decision of the same
\* path given relative to the base.
C20_PathResolution ==
    last.op = "matches" =>
        /\ last.result = MatchesLoop(rules, 1, Resolved, LastDir, FALSE)
        /\ (base_path # NoBase /\ is_absolute(last.path) /\ IsRelativeTo(last.path, base_path))
               => last.result = Parser_matches(rules, base_path, fs,
                                               relative_to(last.path, base_path), last.is_dir)

RegexOfNormalized(normalized_pattern) ==
    Anchored(join_regex_parts(ConvertParts(Split(normalized_pattern, "/"))))

\* C22: a pattern with no / converts to what **/ before it converts to; a
\* pattern that starts with / loses exactly that one / and gets no **/
\* (so //x keeps one leading /); a pattern with a / that does not start with
\* one is converted as it is.
C22_Normalization ==
    stage # "input" =>
        /\ ~Contains(pattern, "/")
              => regex_str = pattern_to_regex(<<"*", "*", "/">> \o pattern)
        /\ StartsWith(pattern, "/")
              => /\ normalize_pattern(pattern) = Tail(pattern)
                 /\ regex_str = RegexOfNormalized(Tail(pattern))
        /\ (Contains(pattern, "/") /\ ~StartsWith(pattern, "/"))
              => /\ normalize_pattern(pattern) = pattern
                 /\ regex_str = RegexOfNormalized(pattern)

\* //x became the regex of /x, which accepts /x
C22_Witness ==
    /\ stage = "accepted"
    /\ pattern = p_slash_slash_x
    /\ regex_str = <<"^", "/", "x", "$">>
    /\ path = <<"/", "x">>
    /\ accepted

\* The 0-based positions of text, from position from on, that hold a ] with
\* no backslash before it
UnescapedClosings(text, from) ==
    {i \in from..(Len(text) - 1) : text[i + 1] = "]" /\ (i = 0 \/ text[i] # BSL)}

\* Where the content of the class that opens at position begins: after the
\* [, a ! or ^, and a ] that comes first
ClassContentStart(text, position) ==
    LET i0 == position + 1
        i1 == IF i0 < Len(text) /\ text[i0 + 1] \in {"!", "^"} THEN i0 + 1 ELSE i0
    IN  IF i1 < Len(text) /\ text[i1 + 1] = "]" THEN i1 + 1 ELSE i1

\* C23: where convert_glob_part meets a [ that has a closing bracket, it
\* emits the text from the [ through the first ] with no backslash before
\* it as it is, a leading ! or ^ included, and goes on converting right
\* after that ]; a ] after a backslash does not end the class.
C23_ClassCapture ==
    ( /\ stage # "input"
      /\ ~Contains(pattern, "/")
      /\ Contains(pattern, "[")
      /\ UnescapedClosings(pattern, ClassContentStart(pattern, FirstBracket(pattern) - 1)) # {} )
    => LET start == FirstBracket(pattern) - 1
           closings == UnescapedClosings(pattern, ClassContentStart(pattern, start))
           end == CHOOSE i \in closings : \A j \in closings : i <= j
       IN  /\ CharacterClass_handle(pattern, start) = <<Slice(pattern, start, end + 1), end + 1>>
           /\ regex_str = Anchored(DotStar \o ConvertLoop(Slice(pattern, 0, start), 0, <<>>)
                                   \o Slice(pattern, start, end + 1)
                                   \o ConvertLoop(pattern, end + 1, <<>>))

\* C24: * matches any run of characters other than /, and ? one character
\* other than /.  So for a pattern with a /, with no segment ** and no
\* character class, an accepted path has as many segments as the normalised
\* pattern and each of its segments matches the pattern segment in its
\* place: path/*/sub accepts path/x/sub and neither path/x/y/sub nor
\* path/sub.
C24_SegmentBounded ==
    ( /\ Judged
      /\ Names(pattern)
      /\ Contains(pattern, "/")
      /\ ~Contains(pattern, "[")
      /\ \A k \in 1..Len(Segments(normalize_pattern(pattern))) :
            Segments(normalize_pattern(pattern))[k] # RecursiveWildcard )
    => LET pats == Segments(normalize_pattern(pattern))
           segs == Segments(path)
       IN  /\ accepted => /\ Len(segs) = Len(pats)
                          /\ \A k \in 1..Len(pats) : GlobSegment(pats[k], segs[k])
           /\ pattern = p_path_star_sub =>
                 /\ path = n_path_x_sub => accepted
                 /\ path \in {n_path_x_y_sub, n_path_sub} => ~accepted

\* The handler the fixed order wildcard, single-char, character-class,
\* literal fallback gives a character
HandlerInOrder(char) ==
    CASE char = "*" -> "wildcard"
      [] char = "?" -> "single"
      [] char = "[" -> "class"
      [] OTHER -> "literal"

\* C25: convert_glob_part is total and terminates: at every position of a
\* segment the character goes to the first handler, in the order wildcard,
\* single-char, character-class, literal fallback, that accepts it, some
\* handler always does (no RuntimeError), and the handler returns a position
\* greater than the current one and at most the length of the segment.
C25_ConvertTotal ==
    stage # "input" =>
        \A part \in {Segments(normalize_pattern(pattern))[k] :
                        k \in 1..Len(Segments(normalize_pattern(pattern)))} :
            \A position \in 0..(Len(part) - 1) :
                LET h == find_handler(part[position + 1])
                    new_position == handle(h, part, position)[2]
                IN  /\ h # NoHandler
                    /\ h = HandlerInOrder(part[position + 1])
                    /\ new_position > position
                    /\ new_position <= Len(part)

\* file[!a-c].dat, with literal characters and a class of five characters
\* that the class handler takes in one step, was converted
C25_Witness ==
    /\ stage = "converted"
    /\ pattern = p_file_bang
    /\ handle(find_handler("["), pattern, 4) = << <<"[", "!", "a", "-", "c", "]">>, 10 >>
    /\ regex_str = <<"^", ".", "*", "f", "i", "l", "e", "[", "!", "a", "-", "c", "]",
                     BSL, ".", "d", "a", "t", "$">>

(***************************************************************************)
(* More properties of the command line (CliSpec)                           *)
(***************************************************************************)
\* The run has a parser
Loaded == proc.pc \in {"scan", "returned", "exited"} /\ proc.parser

\* C26: ignoring a directory ignores what is in it.  With no negated rule,
\* when matches(d, is_dir = true) is true for a directory d, matches is true
\* for every path beneath d, whether the pattern ends with / or not: with
\* the one rule build, build and build/out.o are both ignored, and the
\* checklist lists nothing beneath an ignored directory.
C26_DirectoryContents ==
    (Loaded /\ \A k \in 1..Len(rules) : ~rules[k].negated) =>
        /\ \A d \in fs, x \in ProjectPaths(fs) :
              (d \in Parents(x) /\ Parser_matches(rules, base_path, fs, d, TRUE))
                  => Parser_matches(rules, base_path, fs, x, FALSE)
        /\ RulePatternsOf(rules) = <<p_build>> =>
              /\ Parser_matches(rules, base_path, fs, n_build, TRUE)
              /\ Parser_matches(rules, base_path, fs, n_build_out, FALSE)
        /\ (proc.written /\ proc.command = "checklist") =>
              \A x \in proc.kept : \A d \in Parents(x) :
                  ~Parser_matches(rules, base_path, fs, d, TRUE)

(***************************************************************************)
(* More properties of the queries (Spec)                                   *)
(***************************************************************************)
\* C27: what matches returns depends on the rules, the base path, the path
\* and the is_dir argument only: with is_dir false it returns the same for
\* every state of the file system, whether or not the path is a directory
\* there.
C27_NoFileSystem ==
    (last.op = "matches" /\ ~last.is_dir) =>
        \A dirs \in FsMenu :
            Parser_matches(rules, base_path, dirs, last.path, FALSE) = last.result

\* C28: appending is monotone.  After add_rule of a pattern without !,
\* every path that was ignored is still ignored; after add_rule of a
\* pattern with !, every path that was kept is still kept; and a path that
\* the new rule does not match keeps the decision it had.
C28_AppendMonotone ==
    [][(last'.op = "add_rule" /\ rules' # rules) =>
          \A p \in PathMenu, d \in BOOLEAN :
              LET before == Parser_matches(rules, base_path, fs, p, d)
                  after == Parser_matches(rules', base_path', fs', p, d)
                  new == from_pattern(last'.pattern)
                  norm == normalize_path(rel_to_base(base_path', p))
                  dir == d \/ fs_is_dir(fs', p)
              IN  /\ (~new.negated /\ before) => after
                  /\ (new.negated /\ ~before) => ~after
                  /\ ~IgnoreRule_matches(new, norm, dir) => (after = before)]_vars

\* !important.log was appended to *.log: important.log, ignored before, is
\* kept now, and app.log, which the new rule does not match, is still ignored
C28_Witness ==
    /\ last.op = "add_rule"
    /\ last.pattern = p_not_important
    /\ RulePatternsOf(rules) = <<p_star_log, p_not_important>>
    /\ Parser_matches(SubSeq(rules, 1, 1), base_path, fs, n_important_log, FALSE)
    /\ ~Parser_matches(rules, base_path, fs, n_important_log, FALSE)
    /\ Parser_matches(rules, base_path, fs, n_app_log, FALSE)

(***************************************************************************)
(* Properties of matches racing with add_rule (RaceSpec)                   *)
(***************************************************************************)
\* C29: when one add_rule runs between the steps of a matches call, matches
\* returns what it returns on the rules before the append or what it
\* returns on the rules after it, and nothing else.
C29_BeforeOrAfter ==
    proc.pc = "done" =>
        \/ proc.result = Parser_matches(rules, base_path, fs, proc.path, proc.is_dir)
        \/ /\ last.op = "add_rule"
           /\ proc.result = Parser_matches(SubSeq(rules, 1, Len(rules) - 1), base_path, fs,
                                           proc.path, proc.is_dir)

\* !important.log was appended to *.log while matches("important.log") was
\* in its loop and after the iterator had passed the end of the old list:
\* matches returns ignored, the answer of the rules before the append
C29_Witness ==
    /\ proc.pc = "done"
    /\ proc.path = n_important_log
    /\ last.op = "add_rule"
    /\ RulePatternsOf(rules) = <<p_star_log, p_not_important>>
    /\ proc.index = 1
    /\ proc.result
    /\ ~Parser_matches(rules, base_path, fs, proc.path, proc.is_dir)

\* C30: in generate_tree no path that the parser reports as ignored is a
\* node of the tree that is built, also when a path that is not ignored lies
\* beneath a directory that is.
C30_NoIgnoredNode ==
    (proc.pc \in {"returned", "exited"} /\ proc.command = "tree" /\ proc.written) =>
        \A n \in proc.nodes :
            ~Parser_matches(rules, base_path, fs, PathForIgnore(proc.root_dir, n), FALSE)

====
